---- MODULE Spec2Model ----
(***************************************************************************)
(* Model of the replicated file store of src/src/DFS.cpp: a fixed pool of  *)
(* nodes (directories node_1..node_N), the coordinator DistributedFS with  *)
(* its in-memory map filename -> node ids, and the text file metadata.txt  *)
(* the map is saved to.                                                    *)
(*                                                                         *)
(* A file name and the text of metadata.txt are sequences of characters,   *)
(* a character being a one-letter string.  A blob is identified by its     *)
(* content, a number in 1..MaxContent; NoBlob stands for "no such file".   *)
(* A storage error (std::filesystem::filesystem_error) is an input of the  *)
(* operation: failAt = k makes the k-th filesystem call of the operation   *)
(* throw, failAt = 0 makes none throw for that reason.                     *)
(***************************************************************************)
EXTENDS Integers, Sequences, FiniteSets

VARIABLES
    active,     \* Node::active of nodes[id - 1], for id in 1..N
    metadata,   \* DistributedFS::metadata: filename -> sequence of node ids
    disk,       \* the text of METADATA_FILE (<<>> when it does not exist)
    blobs,      \* blobs[id][f]: content of node_<id>/<f>, or NoBlob
    result,     \* what the last operation was and how it ended (its message)
    uploaded    \* history: uploaded[f] = content of the last successful upload

vars == <<active, metadata, disk, blobs, result, uploaded>>

(***************************************************************************)
(* Constants of the program and bounds of the model.                       *)
(***************************************************************************)
N == 4                  \* DistributedFS dfs(4)
REPLICATION == 3        \* const int REPLICATION = 3
WarnThreshold == 2      \* if (activeCount < 2)
MaxContent == 2         \* distinct contents a local file can have

Nodes == 1..N
NoBlob == 0
Contents == 1..MaxContent
NoFile == <<>>

\* The file the operator works with in the runs of the engine.
FileA == <<"a">>
Files == {FileA}

\* File names of the records saved and loaded.  The third contains a colon,
\* a legal character of a file name and the separator of metadata.txt.
FileB == <<"b">>
FileA1 == <<"a", ":", "1">>
RoundTripFiles == {FileA, FileB, FileA1}

(***************************************************************************)
(* Characters and decimal numbers.                                         *)
(***************************************************************************)
Digits == <<"0", "1", "2", "3", "4", "5", "6", "7", "8", "9">>

IsDigit(c) == \E d \in 1..10 : Digits[d] = c

DigitValue(c) == (CHOOSE d \in 1..10 : Digits[d] = c) - 1

\* The characters of the model, in the order of their char values, which
\* is the order std::string's operator< compares by.
Alphabet == <<"\n", ",", "0", "1", "2", "3", "4", "5", "6", "7", "8", "9",
              ":", "a", "b">>

CharCode(c) == CHOOSE i \in 1..Len(Alphabet) : Alphabet[i] = c

RECURSIVE LexLess(_, _)
LexLess(s, t) ==
    IF t = <<>> THEN FALSE
    ELSE IF s = <<>> THEN TRUE
    ELSE IF CharCode(Head(s)) # CharCode(Head(t))
         THEN CharCode(Head(s)) < CharCode(Head(t))
    ELSE LexLess(Tail(s), Tail(t))

\* Iteration order of std::map<string, ...>: keys ascending.
RECURSIVE SortedKeys(_)
SortedKeys(S) ==
    IF S = {} THEN <<>>
    ELSE LET m == CHOOSE x \in S : \A y \in S \ {x} : LexLess(x, y)
         IN <<m>> \o SortedKeys(S \ {m})

\* operator<<(int): decimal digits of a non-negative int.
RECURSIVE IntToString(_)
IntToString(n) ==
    IF n < 10 THEN <<Digits[n + 1]>>
    ELSE IntToString(n \div 10) \o <<Digits[(n % 10) + 1]>>

\* The longest prefix of s made of digits.
RECURSIVE DigitPrefix(_)
DigitPrefix(s) ==
    IF s = <<>> \/ ~IsDigit(Head(s)) THEN <<>>
    ELSE <<Head(s)>> \o DigitPrefix(Tail(s))

RECURSIVE DecimalValue(_, _)
DecimalValue(s, acc) ==
    IF s = <<>> THEN acc
    ELSE DecimalValue(Tail(s), 10 * acc + DigitValue(Head(s)))

\* std::stoi: converts the leading digits and ignores what follows them;
\* throws std::invalid_argument when there is no leading digit.
Stoi(token) ==
    LET p == DigitPrefix(token)
    IN IF p = <<>> THEN [threw |-> TRUE, value |-> 0]
       ELSE [threw |-> FALSE, value |-> DecimalValue(p, 0)]

(***************************************************************************)
(* saveMetadata: one line "filename:id1,id2,id3," per record.              *)
(***************************************************************************)
RECURSIVE IdList(_)
IdList(ids) ==
    IF ids = <<>> THEN <<>>
    ELSE IntToString(Head(ids)) \o <<",">> \o IdList(Tail(ids))

RECURSIVE SaveLines(_, _)
SaveLines(keys, md) ==
    IF keys = <<>> THEN <<>>
    ELSE Head(keys) \o <<":">> \o IdList(md[Head(keys)]) \o <<"\n">>
         \o SaveLines(Tail(keys), md)

SaveMetadata(md) == SaveLines(SortedKeys(DOMAIN md), md)

(***************************************************************************)
(* loadMetadata: getline over the text, find(':'), getline over ','.       *)
(***************************************************************************)
\* Index of the first occurrence of c in s, 0 when there is none.
RECURSIVE FindChar(_, _, _)
FindChar(s, c, i) ==
    IF i > Len(s) THEN 0
    ELSE IF s[i] = c THEN i
    ELSE FindChar(s, c, i + 1)

\* getline(stream, piece, sep) until it fails: the pieces between
\* separators; a last piece without separator counts when it is not empty.
RECURSIVE Split(_, _)
Split(s, sep) ==
    IF s = <<>> THEN <<>>
    ELSE LET p == FindChar(s, sep, 1)
         IN IF p = 0 THEN <<s>>
            ELSE <<SubSeq(s, 1, p - 1)>> \o Split(SubSeq(s, p + 1, Len(s)), sep)

\* The inner while loop: the ids of the non-empty tokens, up to a throw.
RECURSIVE ParseIds(_, _)
ParseIds(tokens, ids) ==
    IF tokens = <<>> THEN [threw |-> FALSE, ids |-> ids]
    ELSE IF Head(tokens) = <<>> THEN ParseIds(Tail(tokens), ids)
    ELSE LET v == Stoi(Head(tokens))
         IN IF v.threw THEN [threw |-> TRUE, ids |-> ids]
            ELSE ParseIds(Tail(tokens), Append(ids, v.value))

\* Variant of SetRecord that appends the ids to the record the file has.
SetRecordAppend(md, f, ids) ==
    [g \in DOMAIN md \cup {f} |->
        IF g = f THEN (IF f \in DOMAIN md THEN md[f] ELSE <<>>) \o ids
        ELSE md[g]]

\* metadata[filename] = nodeList
SetRecord(md, f, ids) ==
    [g \in DOMAIN md \cup {f} |-> IF g = f THEN ids ELSE md[g]]

\* The outer while loop; an exception leaves the map as built so far.
RECURSIVE LoadLines(_, _)
LoadLines(lines, md) ==
    IF lines = <<>> THEN md
    ELSE LET line == Head(lines)
             colonPos == FindChar(line, ":", 1)
         IN IF line = <<>> \/ colonPos = 0 THEN LoadLines(Tail(lines), md)
            ELSE LET filename == SubSeq(line, 1, colonPos - 1)
                     nodeStr == SubSeq(line, colonPos + 1, Len(line))
                     parsed == ParseIds(Split(nodeStr, ","), <<>>)
                 IN IF parsed.threw THEN md
                    ELSE IF parsed.ids = <<>> THEN LoadLines(Tail(lines), md)
                    ELSE LoadLines(Tail(lines),
                                   SetRecord(md, filename, parsed.ids))

EmptyMap == [f \in {} |-> <<>>]

LoadMetadata(text) == LoadLines(Split(text, "\n"), EmptyMap)

(***************************************************************************)
(* State after construction in a fresh directory: every node active, no    *)
(* record, no metadata.txt, empty node directories.                        *)
(***************************************************************************)
\* result: the operation, its argument (file or node id), its outcome, the
\* content a download returned, the record the file had before the operation
\* and (failNode, recoverNode) the active flag the node had before it.
MkResult(op, f, id, outcome, content, rec) ==
    [op |-> op, file |-> f, node |-> id, outcome |-> outcome,
     content |-> content, rec |-> rec, wasActive |-> FALSE]

\* The record of f before an operation, <<>> when it has none.
RecordOf(md, f) == IF f \in DOMAIN md THEN md[f] ELSE <<>>

Init ==
    /\ active = [n \in Nodes |-> TRUE]
    /\ metadata = EmptyMap
    /\ disk = <<>>
    /\ blobs = [n \in Nodes |-> [f \in Files |-> NoBlob]]
    /\ result = MkResult("start", NoFile, 0, "ok", NoBlob, <<>>)
    /\ uploaded = [f \in Files |-> NoBlob]

\* fs::copy(..., node.directory / filename, overwrite_existing)
PutBlob(bl, id, f, c) == [bl EXCEPT ![id][f] = c]

(***************************************************************************)
(* upload                                                                  *)
(***************************************************************************)
\* Variant of UploadPicksNode that takes a node whatever its flag.
UploadPicksNodeNoCheck(act, i) == TRUE

\* if (node.active)
UploadPicksNode(act, i) == act[i]

\* The for loop over nodes: copy to each active node until REPLICATION
\* copies are made; the failAt-th copy throws.
RECURSIVE UploadLoop(_, _, _, _, _, _)
UploadLoop(i, f, c, failAt, used, bl) ==
    IF i > N THEN [used |-> used, blobs |-> bl, threw |-> FALSE]
    ELSE IF UploadPicksNode(active, i)
         THEN IF Len(used) + 1 = failAt
              THEN [used |-> used, blobs |-> bl, threw |-> TRUE]
              ELSE LET used2 == Append(used, i)
                       bl2 == PutBlob(bl, i, f, c)
                   IN IF Len(used2) = REPLICATION
                      THEN [used |-> used2, blobs |-> bl2, threw |-> FALSE]
                      ELSE UploadLoop(i + 1, f, c, failAt, used2, bl2)
         ELSE UploadLoop(i + 1, f, c, failAt, used, bl)

\* Variant of UploadOutcome without the test of the number of copies.
UploadOutcomeNoCount(r) ==
    IF r.threw THEN "NodeIOError" ELSE "ok"

\* The two early returns after the loop: the catch block and
\* if (replicated < REPLICATION).
UploadOutcome(r) ==
    IF r.threw THEN "NodeIOError"
    ELSE IF Len(r.used) < REPLICATION THEN "InsufficientNodes"
    ELSE "ok"

\* c is the content of the local file named f, NoBlob when there is none.
Upload(f, c, failAt) ==
    IF c = NoBlob
    THEN /\ result' = MkResult("upload", f, 0, "SourceNotFound", NoBlob,
                               RecordOf(metadata, f))
         /\ UNCHANGED <<active, metadata, disk, blobs, uploaded>>
    ELSE LET r == UploadLoop(1, f, c, failAt, <<>>, blobs)
             outcome == UploadOutcome(r)
         IN /\ blobs' = r.blobs
            /\ result' = MkResult("upload", f, 0, outcome, c,
                                  RecordOf(metadata, f))
            /\ IF outcome = "ok"
               THEN /\ metadata' = SetRecord(metadata, f, r.used)
                    /\ disk' = SaveMetadata(metadata')
                    /\ uploaded' = [uploaded EXCEPT ![f] = c]
               ELSE UNCHANGED <<metadata, disk, uploaded>>
            /\ UNCHANGED active

(***************************************************************************)
(* download                                                                *)
(***************************************************************************)
\* Variant of FirstActive that takes the first listed id whatever its flag.
FirstActiveAny(act, ids) == IF ids = <<>> THEN -1 ELSE Head(ids)

\* The first id of the list whose node is active, -1 when there is none.
RECURSIVE FirstActive(_, _)
FirstActive(act, ids) ==
    IF ids = <<>> THEN -1
    ELSE IF act[Head(ids)] THEN Head(ids)
    ELSE FirstActive(act, Tail(ids))

\* The copy of the blob of the first active listed node to downloaded_<f>;
\* fs::copy throws when the node does not hold the blob.
DownloadFrom(f, src, failAt) ==
    IF src = -1
    THEN MkResult("download", f, 0, "AllReplicasUnavailable", NoBlob, <<>>)
    ELSE IF failAt = 1 \/ blobs[src][f] = NoBlob
    THEN MkResult("download", f, src, "NodeIOError", NoBlob, <<>>)
    ELSE MkResult("download", f, src, "ok", blobs[src][f], <<>>)

Download(f, failAt) ==
    /\ result' =
         IF f \notin DOMAIN metadata
         THEN MkResult("download", f, 0, "FileNotFound", NoBlob, <<>>)
         ELSE DownloadFrom(f, FirstActive(active, metadata[f]), failAt)
    /\ UNCHANGED <<active, metadata, disk, blobs, uploaded>>

(***************************************************************************)
(* deleteFile                                                              *)
(***************************************************************************)
\* Variant of DeleteLoop that skips the listed nodes that are inactive.
RECURSIVE DeleteLoopActiveOnly(_, _, _, _, _)
DeleteLoopActiveOnly(ids, f, failAt, k, bl) ==
    IF ids = <<>> THEN [blobs |-> bl, threw |-> FALSE]
    ELSE IF ~active[Head(ids)]
    THEN DeleteLoopActiveOnly(Tail(ids), f, failAt, k, bl)
    ELSE IF k = failAt THEN [blobs |-> bl, threw |-> TRUE]
    ELSE DeleteLoopActiveOnly(Tail(ids), f, failAt, k + 1,
                              PutBlob(bl, Head(ids), f, NoBlob))

\* fs::remove(nodes[nodeID - 1].directory / filename) for each listed id,
\* whatever the node's active flag; the failAt-th call throws.
RECURSIVE DeleteLoop(_, _, _, _, _)
DeleteLoop(ids, f, failAt, k, bl) ==
    IF ids = <<>> THEN [blobs |-> bl, threw |-> FALSE]
    ELSE IF k = failAt THEN [blobs |-> bl, threw |-> TRUE]
    ELSE DeleteLoop(Tail(ids), f, failAt, k + 1,
                    PutBlob(bl, Head(ids), f, NoBlob))

\* Variant of EraseRecord that keeps the record of the deleted file.
EraseRecordKeep(md, f) == md

\* metadata.erase(filename)
EraseRecord(md, f) == [g \in DOMAIN md \ {f} |-> md[g]]

\* Variant of DeleteFile without the final saveMetadata().
DeleteFileNoSave(f, failAt) ==
    IF f \notin DOMAIN metadata
    THEN /\ result' = MkResult("delete", f, 0, "FileNotFound", NoBlob, <<>>)
         /\ UNCHANGED <<active, metadata, disk, blobs, uploaded>>
    ELSE LET r == DeleteLoop(metadata[f], f, failAt, 1, blobs)
         IN /\ blobs' = r.blobs
            /\ IF r.threw
               THEN /\ result' = MkResult("delete", f, 0, "NodeIOError",
                                          NoBlob, metadata[f])
                    /\ UNCHANGED metadata
               ELSE /\ result' = MkResult("delete", f, 0, "ok", NoBlob,
                                          metadata[f])
                    /\ metadata' = EraseRecord(metadata, f)
            /\ UNCHANGED <<active, disk, uploaded>>

DeleteFile(f, failAt) ==
    IF f \notin DOMAIN metadata
    THEN /\ result' = MkResult("delete", f, 0, "FileNotFound", NoBlob, <<>>)
         /\ UNCHANGED <<active, metadata, disk, blobs, uploaded>>
    ELSE LET r == DeleteLoop(metadata[f], f, failAt, 1, blobs)
         IN /\ blobs' = r.blobs
            /\ IF r.threw
               THEN /\ result' = MkResult("delete", f, 0, "NodeIOError",
                                          NoBlob, metadata[f])
                    /\ UNCHANGED <<metadata, disk>>
               ELSE /\ result' = MkResult("delete", f, 0, "ok", NoBlob,
                                          metadata[f])
                    /\ metadata' = EraseRecord(metadata, f)
                    /\ disk' = SaveMetadata(metadata')
            /\ UNCHANGED <<active, uploaded>>

(***************************************************************************)
(* checkReplicaHealth and reReplicateFile.  The pass works on              *)
(* st = [metadata, blobs, disk, calls], calls counting the fs::copy calls  *)
(* made so far in the pass, under the active flags act.                    *)
(***************************************************************************)
\* The counting loops: how many listed nodes are active.
RECURSIVE ActiveCount(_, _)
ActiveCount(act, ids) ==
    IF ids = <<>> THEN 0
    ELSE (IF act[Head(ids)] THEN 1 ELSE 0) + ActiveCount(act, Tail(ids))

\* find(currentNodes.begin(), currentNodes.end(), id) != currentNodes.end()
Listed(ids, id) == \E i \in 1..Len(ids) : ids[i] = id

\* fs::copy from the source node's blob to node dst: throws when it is the
\* failAt-th copy of the pass or the source node does not hold the blob.
CopyBlob(st, f, src, dst, failAt) ==
    IF st.calls + 1 = failAt \/ st.blobs[src][f] = NoBlob
    THEN [st |-> [st EXCEPT !.calls = st.calls + 1], threw |-> TRUE]
    ELSE [st |-> [st EXCEPT !.calls = st.calls + 1,
                            !.blobs = PutBlob(st.blobs, dst, f,
                                              st.blobs[src][f])],
          threw |-> FALSE]

\* Variant of RestoreLoop that does not count the restored copies.
RECURSIVE RestoreLoopNoCount(_, _, _, _, _, _, _)
RestoreLoopNoCount(act, st, f, src, ids, activeReplicas, failAt) ==
    IF ids = <<>>
    THEN [st |-> st, activeReplicas |-> activeReplicas, threw |-> FALSE]
    ELSE IF ~act[Head(ids)] /\ activeReplicas < REPLICATION
    THEN LET c == CopyBlob(st, f, src, Head(ids), failAt)
         IN IF c.threw
            THEN [st |-> c.st, activeReplicas |-> activeReplicas,
                  threw |-> TRUE]
            ELSE RestoreLoopNoCount(act, c.st, f, src, Tail(ids),
                                    activeReplicas, failAt)
    ELSE RestoreLoopNoCount(act, st, f, src, Tail(ids), activeReplicas,
                            failAt)

\* First loop of the try block: restore the blob on the listed nodes that
\* are inactive, counting each as a replica.
RECURSIVE RestoreLoop(_, _, _, _, _, _, _)
RestoreLoop(act, st, f, src, ids, activeReplicas, failAt) ==
    IF ids = <<>>
    THEN [st |-> st, activeReplicas |-> activeReplicas, threw |-> FALSE]
    ELSE IF ~act[Head(ids)] /\ activeReplicas < REPLICATION
    THEN LET c == CopyBlob(st, f, src, Head(ids), failAt)
         IN IF c.threw
            THEN [st |-> c.st, activeReplicas |-> activeReplicas,
                  threw |-> TRUE]
            ELSE RestoreLoop(act, c.st, f, src, Tail(ids),
                             activeReplicas + 1, failAt)
    ELSE RestoreLoop(act, st, f, src, Tail(ids), activeReplicas, failAt)

\* Second loop: add the active nodes that are not listed, in id order,
\* until activeReplicas reaches REPLICATION.
RECURSIVE GrowLoop(_, _, _, _, _, _, _)
GrowLoop(act, st, f, src, i, activeReplicas, failAt) ==
    IF i > N THEN [st |-> st, threw |-> FALSE]
    ELSE IF act[i] /\ ~Listed(st.metadata[f], i)
    THEN LET c == CopyBlob(st, f, src, i, failAt)
         IN IF c.threw THEN [st |-> c.st, threw |-> TRUE]
            ELSE LET st2 == [c.st EXCEPT
                               !.metadata = SetRecord(c.st.metadata, f,
                                              Append(c.st.metadata[f], i))]
                 IN IF activeReplicas + 1 >= REPLICATION
                    THEN [st |-> st2, threw |-> FALSE]
                    ELSE GrowLoop(act, st2, f, src, i + 1,
                                  activeReplicas + 1, failAt)
    ELSE GrowLoop(act, st, f, src, i + 1, activeReplicas, failAt)

\* The try block: both loops, then saveMetadata(); the catch block skips
\* the save.
Repair(act, st, f, src, activeReplicas, failAt) ==
    LET r == RestoreLoop(act, st, f, src, st.metadata[f], activeReplicas,
                         failAt)
    IN IF r.threw THEN r.st
       ELSE LET g == IF r.activeReplicas < REPLICATION
                     THEN GrowLoop(act, r.st, f, src, 1, r.activeReplicas,
                                   failAt)
                     ELSE [st |-> r.st, threw |-> FALSE]
            IN IF g.threw THEN g.st
               ELSE [g.st EXCEPT !.disk = SaveMetadata(g.st.metadata)]

\* Variant of ReReplicateFile that drops the record of a file none of whose
\* listed nodes is active.
ReReplicateFileDropDark(act, st, f, failAt) ==
    IF f \notin DOMAIN st.metadata THEN st
    ELSE LET currentNodes == st.metadata[f]
             activeReplicas == ActiveCount(act, currentNodes)
             sourceNodeId == FirstActive(act, currentNodes)
         IN IF activeReplicas >= REPLICATION THEN st
            ELSE IF sourceNodeId = -1
            THEN [st EXCEPT !.metadata = EraseRecord(st.metadata, f)]
            ELSE Repair(act, st, f, sourceNodeId, activeReplicas, failAt)

ReReplicateFile(act, st, f, failAt) ==
    IF f \notin DOMAIN st.metadata THEN st
    ELSE LET currentNodes == st.metadata[f]
             activeReplicas == ActiveCount(act, currentNodes)
             sourceNodeId == FirstActive(act, currentNodes)
         IN IF activeReplicas >= REPLICATION THEN st
            ELSE IF sourceNodeId = -1 THEN st
            ELSE Repair(act, st, f, sourceNodeId, activeReplicas, failAt)

\* Variant of NeedsRepair with the replication factor as threshold.
NeedsRepairBelowR(act, ids) == ActiveCount(act, ids) < REPLICATION

\* Variant of NeedsRepair that also repairs at the threshold.
NeedsRepairAtThreshold(act, ids) == ActiveCount(act, ids) <= WarnThreshold

\* if (activeCount < 2)
NeedsRepair(act, ids) == ActiveCount(act, ids) < WarnThreshold

\* for (auto &entry : metadata)
RECURSIVE HealthLoop(_, _, _, _)
HealthLoop(act, st, keys, failAt) ==
    IF keys = <<>> THEN st
    ELSE LET file == Head(keys)
         IN IF NeedsRepair(act, st.metadata[file])
            THEN HealthLoop(act, ReReplicateFile(act, st, file, failAt),
                            Tail(keys), failAt)
            ELSE HealthLoop(act, st, Tail(keys), failAt)

CheckReplicaHealth(act, failAt) ==
    HealthLoop(act,
               [metadata |-> metadata, blobs |-> blobs, disk |-> disk,
                calls |-> 0],
               SortedKeys(DOMAIN metadata), failAt)

(***************************************************************************)
(* failNode and recoverNode                                                *)
(***************************************************************************)
\* Variant of InvalidNodeId that also rejects the last node of the pool.
InvalidNodeIdOffByOne(id) == id < 1 \/ id >= N

\* if (id < 1 || id > (int)nodes.size())
InvalidNodeId(id) == id < 1 \/ id > N

\* nodes[id - 1].fail(), then the health check under the new flags.
FailNode(id, failAt) ==
    IF InvalidNodeId(id)
    THEN /\ result' = MkResult("fail", NoFile, id, "InvalidNodeId", NoBlob,
                               <<>>)
         /\ UNCHANGED <<active, metadata, disk, blobs, uploaded>>
    ELSE LET act == [active EXCEPT ![id] = FALSE]
             st == CheckReplicaHealth(act, failAt)
         IN /\ active' = act
            /\ metadata' = st.metadata
            /\ blobs' = st.blobs
            /\ disk' = st.disk
            /\ result' = [MkResult("fail", NoFile, id, "ok", NoBlob, <<>>)
                             EXCEPT !.wasActive = active[id]]
            /\ UNCHANGED uploaded

\* nodes[id - 1].recover(), then the health check under the new flags.
RecoverNode(id, failAt) ==
    IF InvalidNodeId(id)
    THEN /\ result' = MkResult("recover", NoFile, id, "InvalidNodeId",
                               NoBlob, <<>>)
         /\ UNCHANGED <<active, metadata, disk, blobs, uploaded>>
    ELSE LET act == [active EXCEPT ![id] = TRUE]
             st == CheckReplicaHealth(act, failAt)
         IN /\ active' = act
            /\ metadata' = st.metadata
            /\ blobs' = st.blobs
            /\ disk' = st.disk
            /\ result' = [MkResult("recover", NoFile, id, "ok", NoBlob, <<>>)
                             EXCEPT !.wasActive = active[id]]
            /\ UNCHANGED uploaded

(***************************************************************************)
(* Specifications.                                                         *)
(*                                                                         *)
(* Spec: one run of the program in a fresh directory, the commands of main *)
(* in any order, on any local file and any node of the pool, every         *)
(* filesystem call succeeding unless the file it reads is missing.         *)
(***************************************************************************)
DoUpload == \E f \in Files, c \in Contents \cup {NoBlob} : Upload(f, c, 0)

DoDownload == \E f \in Files : Download(f, 0)

DoDelete == \E f \in Files : DeleteFile(f, 0)

DoFail == \E id \in Nodes : FailNode(id, 0)

DoRecover == \E id \in Nodes : RecoverNode(id, 0)

Next == DoUpload \/ DoDownload \/ DoDelete \/ DoFail \/ DoRecover

Spec == Init /\ [][Next]_vars

(***************************************************************************)
(* SpecErrors: the same run with erroneous inputs: a node id may be out of *)
(* range, and any one filesystem call of an operation may throw (an        *)
(* operation makes at most REPLICATION of them).  The local file has one   *)
(* content.                                                                *)
(***************************************************************************)
FailPoints == 0..REPLICATION

ErrUpload == \E f \in Files, c \in {1, NoBlob}, k \in FailPoints :
                 Upload(f, c, k)

ErrDownload == \E f \in Files, k \in 0..1 : Download(f, k)

ErrDelete == \E f \in Files, k \in FailPoints : DeleteFile(f, k)

ErrFail == \E id \in 0..(N + 1), k \in FailPoints : FailNode(id, k)

ErrRecover == \E id \in 0..(N + 1), k \in FailPoints : RecoverNode(id, k)

NextErrors == ErrUpload \/ ErrDownload \/ ErrDelete \/ ErrFail \/ ErrRecover

SpecErrors == Init /\ [][NextErrors]_vars

(***************************************************************************)
(* SpecRoundTrip: saveMetadata and loadMetadata applied to the maps the    *)
(* engine can hold: each file of RoundTripFiles has no record or a record  *)
(* of REPLICATION ascending node ids, as upload makes them.                *)
(***************************************************************************)
\* The ids of a set of nodes in ascending order.
RECURSIVE Ascending(_)
Ascending(S) ==
    IF S = {} THEN <<>>
    ELSE LET m == CHOOSE x \in S : \A y \in S : x <= y
         IN <<m>> \o Ascending(S \ {m})

Placements == {Ascending(S) : S \in {T \in SUBSET Nodes :
                                         Cardinality(T) = REPLICATION}}

EngineMaps ==
    UNION {[D -> Placements] : D \in SUBSET RoundTripFiles}

InitRoundTrip ==
    /\ active = [n \in Nodes |-> TRUE]
    /\ metadata \in EngineMaps
    /\ disk = <<>>
    /\ blobs = [n \in Nodes |-> [f \in Files |-> NoBlob]]
    /\ result = MkResult("start", NoFile, 0, "ok", NoBlob, <<>>)
    /\ uploaded = [f \in Files |-> NoBlob]

\* saveMetadata()
Save ==
    /\ disk' = SaveMetadata(metadata)
    /\ result' = MkResult("save", NoFile, 0, "ok", NoBlob, <<>>)
    /\ UNCHANGED <<active, metadata, blobs, uploaded>>

\* loadMetadata() of the constructor, into the empty map of a new process.
Load ==
    /\ metadata' = LoadMetadata(disk)
    /\ result' = MkResult("load", NoFile, 0, "ok", NoBlob, <<>>)
    /\ UNCHANGED <<active, disk, blobs, uploaded>>

NextRoundTrip == Save \/ Load

SpecRoundTrip == InitRoundTrip /\ [][NextRoundTrip]_vars

(***************************************************************************)
(* Properties.                                                             *)
(***************************************************************************)
\* Number of active nodes of the pool.
ActiveTotal(act) == Cardinality({n \in Nodes : act[n]})

\* The REPLICATION lowest-numbered active nodes (all of them when fewer are
\* active), in ascending order.
LowestActive(act) ==
    Ascending({n \in Nodes :
                 /\ act[n]
                 /\ Cardinality({m \in Nodes : act[m] /\ m < n}) < REPLICATION})

\* The listed nodes of f that are active and hold a blob of f.
LiveReplicas(f) ==
    {n \in Nodes : /\ Listed(metadata[f], n)
                   /\ active[n]
                   /\ blobs[n][f] # NoBlob}

\* C1: an upload made while fewer than REPLICATION nodes are active leaves
\* the in-memory mapping and metadata.txt as they were, whether or not the
\* file already has a record.
C1_FailedUploadKeepsMetadata ==
    [][(result'.op = "upload" /\ ActiveTotal(active) < REPLICATION)
         => (metadata' = metadata /\ disk' = disk)]_vars

\* C1 witness: an upload has just failed for lack of active nodes on a file
\* that had, and still has, a record.
C1_Witness ==
    /\ result.op = "upload"
    /\ result.outcome = "InsufficientNodes"
    /\ ActiveTotal(active) < REPLICATION
    /\ result.rec # <<>>
    /\ result.file \in DOMAIN metadata
    /\ metadata[result.file] = result.rec

\* C2 (as claimed): an upload made while fewer than REPLICATION nodes are
\* active leaves the blob of the file on every node as it was before.
C2_FailedUploadKeepsBlobs ==
    [][(result'.op = "upload" /\ ActiveTotal(active) < REPLICATION)
         => blobs' = blobs]_vars

\* C3: right after a successful upload the record of the file is the
\* REPLICATION lowest-numbered active nodes in ascending order, hence
\* REPLICATION distinct ids.
C3_UploadPlacement ==
    (result.op = "upload" /\ result.outcome = "ok")
      => /\ result.file \in DOMAIN metadata
         /\ Len(metadata[result.file]) = REPLICATION
         /\ metadata[result.file] = LowestActive(active)
         /\ \A i, j \in 1..REPLICATION :
               i < j => metadata[result.file][i] < metadata[result.file][j]

\* C3 witness: a successful upload while node 1 is inactive, placed on the
\* nodes 2, 3, 4.
C3_Witness ==
    /\ result.op = "upload"
    /\ result.outcome = "ok"
    /\ ~active[1]
    /\ metadata[result.file] = <<2, 3, 4>>

\* C4 (as claimed): a download of a file that has a record and a listed
\* node that is active and holds the blob succeeds and returns the content
\* of the last successful upload of the file.
C4_DownloadReturnsUploaded ==
    (/\ result.op = "download"
     /\ result.file \in DOMAIN metadata
     /\ LiveReplicas(result.file) # {})
      => /\ result.outcome = "ok"
         /\ result.content = uploaded[result.file]

\* C5 (as claimed): failNode of one of the REPLICATION active listed nodes
\* of a file ends with REPLICATION active listed nodes again, when at
\* least N - (REPLICATION - 1) nodes remain active.
C5_FailRestoresReplicas ==
    [][\A f \in Files :
        (/\ result'.op = "fail"
         /\ f \in DOMAIN metadata
         /\ ActiveCount(active, metadata[f]) = REPLICATION
         /\ Listed(metadata[f], result'.node)
         /\ active[result'.node]
         /\ ActiveTotal(active') >= N - (REPLICATION - 1))
          => ActiveCount(active', metadata'[f]) = REPLICATION]_vars

\* C5 (amended): failNode of one of the REPLICATION active listed nodes of
\* a file leaves the record and the blobs of the file as they were, with
\* REPLICATION - 1 active listed nodes: no repair runs for the file.
C5_FailLeavesTwoReplicas ==
    [][\A f \in Files :
        (/\ result'.op = "fail"
         /\ f \in DOMAIN metadata
         /\ ActiveCount(active, metadata[f]) = REPLICATION
         /\ Listed(metadata[f], result'.node)
         /\ active[result'.node])
          => /\ f \in DOMAIN metadata'
             /\ metadata'[f] = metadata[f]
             /\ ActiveCount(active', metadata'[f]) = REPLICATION - 1
             /\ \A n \in Nodes : blobs'[n][f] = blobs[n][f]]_vars

\* C5 witness: a listed node that was active has just been failed, the two
\* other listed nodes are active and hold contents that differ, and enough
\* nodes remain active.
C5_Witness ==
    /\ result.op = "fail"
    /\ result.outcome = "ok"
    /\ result.wasActive
    /\ FileA \in DOMAIN metadata
    /\ Listed(metadata[FileA], result.node)
    /\ ActiveCount(active, metadata[FileA]) = REPLICATION - 1
    /\ ActiveTotal(active) >= N - (REPLICATION - 1)
    /\ \E n \in Nodes : /\ Listed(metadata[FileA], n)
                        /\ active[n]
                        /\ blobs[n][FileA] # blobs[result.node][FileA]

\* C6 (as claimed): after the health check of failNode or recoverNode, a
\* file left with fewer than WarnThreshold active listed nodes, one of them
\* a source, has every active node listed: repair has grown the record
\* until the active nodes were exhausted.
C6_RepairGrowsRecord ==
    (result.op \in {"fail", "recover"} /\ result.outcome = "ok")
      => \A f \in DOMAIN metadata :
           (/\ ActiveCount(active, metadata[f]) < WarnThreshold
            /\ FirstActive(active, metadata[f]) # -1)
             => \A n \in Nodes : active[n] => Listed(metadata[f], n)

\* C7 (as claimed): loading what saveMetadata wrote for a map gives that
\* map back.
C7_RoundTrip ==
    [][(result'.op = "load" /\ disk = SaveMetadata(metadata))
         => metadata' = metadata]_vars

\* C8: a successful upload of a file that has a record replaces the record
\* by the placement of this upload, REPLICATION ids with none of the old
\* record merged in, and leaves the blob of every node outside the new
\* placement as it was.
C8_ReuploadReplacesRecord ==
    [][\A f \in Files :
        (/\ result'.op = "upload"
         /\ result'.outcome = "ok"
         /\ result'.file = f
         /\ f \in DOMAIN metadata)
          => /\ Len(metadata'[f]) = REPLICATION
             /\ metadata'[f] = LowestActive(active)
             /\ \A n \in Nodes :
                   ~Listed(metadata'[f], n) => blobs'[n][f] = blobs[n][f]]_vars

\* C8 witness: a successful upload has replaced a record by a different
\* placement, and a node of the old placement that is not in the new one
\* still holds a blob of the file.
C8_Witness ==
    /\ result.op = "upload"
    /\ result.outcome = "ok"
    /\ result.rec # <<>>
    /\ result.rec # metadata[result.file]
    /\ \E n \in Nodes : /\ Listed(result.rec, n)
                        /\ ~Listed(metadata[result.file], n)
                        /\ blobs[n][result.file] # NoBlob

\* C9 (as claimed): a delete of a file that has a record removes the record
\* and saves the mapping, also when the removal of a blob fails with a
\* storage error.
C9_DeleteSurvivesNodeError ==
    (result.op = "delete" /\ result.rec # <<>>)
      => /\ result.file \notin DOMAIN metadata
         /\ disk = SaveMetadata(metadata)

\* C10 (as claimed): delete removes the blob from the listed nodes that are
\* active and leaves the blob of a listed node that is inactive.
C10_DeleteSkipsInactive ==
    [][\A f \in Files :
        (/\ result'.op = "delete"
         /\ result'.file = f
         /\ f \in DOMAIN metadata)
          => \A n \in Nodes :
               Listed(metadata[f], n)
                 => blobs'[n][f] = IF active[n] THEN NoBlob ELSE blobs[n][f]]_vars

\* C10 (amended): a delete that meets no storage error removes the blob
\* from every listed node, active or not, and leaves the blobs of the nodes
\* that are not listed.
C10_DeleteRemovesFromAllListed ==
    [][\A f \in Files :
        (/\ result'.op = "delete"
         /\ result'.outcome = "ok"
         /\ result'.file = f
         /\ f \in DOMAIN metadata)
          => \A n \in Nodes :
               blobs'[n][f] = IF Listed(metadata[f], n) THEN NoBlob
                              ELSE blobs[n][f]]_vars

\* C10 witness: a delete has just removed a record that listed an inactive
\* node, and that node holds no blob of the file.
C10_Witness ==
    /\ result.op = "delete"
    /\ result.outcome = "ok"
    /\ \E n \in Nodes : /\ Listed(result.rec, n)
                        /\ ~active[n]
                        /\ blobs[n][result.file] = NoBlob

\* C11: download reports FileNotFound exactly when the file has no record,
\* reports AllReplicasUnavailable when the file has a record and every
\* listed node is inactive, and in every outcome changes neither the
\* mapping nor metadata.txt nor an active flag nor a blob.
C11_DownloadOutcomes ==
    [][\A f \in Files :
        (result'.op = "download" /\ result'.file = f)
          => /\ (result'.outcome = "FileNotFound") <=> (f \notin DOMAIN metadata)
             /\ (/\ f \in DOMAIN metadata
                 /\ \A n \in Nodes : Listed(metadata[f], n) => ~active[n])
                  => result'.outcome = "AllReplicasUnavailable"
             /\ UNCHANGED <<metadata, disk, active, blobs>>]_vars

\* C11 witness: a download has just reported AllReplicasUnavailable for a
\* file whose listed nodes are all inactive and hold the blob.
C11_Witness ==
    /\ result.op = "download"
    /\ result.outcome = "AllReplicasUnavailable"
    /\ result.file \in DOMAIN metadata
    /\ \A n \in Nodes :
          Listed(metadata[result.file], n)
            => ~active[n] /\ blobs[n][result.file] # NoBlob

\* The mapping, blobs and metadata.txt after a step are those one health
\* check pass leaves, run on the state before the step under the active
\* flags after it.
OneHealthCheck ==
    \E k \in FailPoints :
        LET st == CheckReplicaHealth(active', k)
        IN /\ metadata' = st.metadata
           /\ blobs' = st.blobs
           /\ disk' = st.disk

\* C12: failNode and recoverNode with an id outside 1..N report
\* InvalidNodeId and change no active flag, record or blob (no health check
\* runs); with an id in 1..N they set that node inactive (resp. active),
\* leave the flag of every other node, and run one health check.
C12_NodeIdRange ==
    [][(result'.op \in {"fail", "recover"})
         => IF result'.node \in Nodes
            THEN /\ result'.outcome = "ok"
                 /\ active' = [active EXCEPT
                                 ![result'.node] = (result'.op = "recover")]
                 /\ OneHealthCheck
            ELSE /\ result'.outcome = "InvalidNodeId"
                 /\ UNCHANGED <<active, metadata, disk, blobs>>]_vars

\* C12 witness: failNode has just rejected the id N + 1 while a record with
\* one active listed node, which a health check would repair, is as it was.
C12_Witness ==
    /\ result.op = "fail"
    /\ result.node = N + 1
    /\ result.outcome = "InvalidNodeId"
    /\ FileA \in DOMAIN metadata
    /\ ActiveCount(active, metadata[FileA]) = 1
    /\ \E n \in Nodes : /\ Listed(metadata[FileA], n)
                        /\ blobs[n][FileA] = NoBlob

\* C13: after every operation, whatever its outcome and whichever of its
\* filesystem calls threw, metadata.txt holds what saveMetadata writes for
\* the in-memory mapping.
C13_DiskMirrorsMetadata == disk = SaveMetadata(metadata)

\* C13 witness: a delete has just been aborted by a storage error after it
\* removed the blob of a listed node; the record is in the mapping and on
\* metadata.txt.
C13_Witness ==
    /\ result.op = "delete"
    /\ result.outcome = "NodeIOError"
    /\ result.file \in DOMAIN metadata
    /\ disk # <<>>
    /\ \E n \in Nodes : /\ Listed(metadata[result.file], n)
                        /\ blobs[n][result.file] = NoBlob

\* C14: in the health check of failNode and recoverNode a file is repaired
\* exactly when fewer than WarnThreshold of its listed nodes are active: with
\* WarnThreshold or more the record and the blobs of the file stay as they
\* were, also when fewer than REPLICATION are active; with fewer (and no
\* storage error), the blob of the first active listed node is copied to
\* the listed inactive nodes.
C14_RepairBelowThresholdOnly ==
    [][\A f \in Files :
        (/\ result'.op \in {"fail", "recover"}
         /\ result'.outcome = "ok"
         /\ f \in DOMAIN metadata)
          => IF ActiveCount(active', metadata[f]) >= WarnThreshold
             THEN /\ f \in DOMAIN metadata'
                  /\ metadata'[f] = metadata[f]
                  /\ \A n \in Nodes : blobs'[n][f] = blobs[n][f]
             ELSE LET src == FirstActive(active', metadata[f])
                  IN src # -1
                       => \A n \in Nodes :
                            (Listed(metadata[f], n) /\ ~active'[n])
                              => blobs'[n][f] = blobs[src][f]]_vars

\* C14 witness: in a pool of 4 with the record 1,2,3, failNode(2) has just
\* left the record as it was with two active listed nodes, although node 2
\* holds another content than node 1.
C14_Witness ==
    /\ result.op = "fail"
    /\ result.node = 2
    /\ result.wasActive
    /\ active = [n \in Nodes |-> n # 2]
    /\ FileA \in DOMAIN metadata
    /\ metadata[FileA] = <<1, 2, 3>>
    /\ blobs[2][FileA] # blobs[1][FileA]

\* C15: failNode and recoverNode neither remove nor create a record, and
\* for a file none of whose listed nodes is active afterwards they leave
\* the record, metadata.txt and the blob of the file on every node as they
\* were.
C15_DarkFileUntouched ==
    [][(result'.op \in {"fail", "recover"})
         => /\ DOMAIN metadata' = DOMAIN metadata
            /\ \A f \in DOMAIN metadata :
                 (\A n \in Nodes : Listed(metadata[f], n) => ~active'[n])
                   => /\ metadata'[f] = metadata[f]
                      /\ disk' = disk
                      /\ \A n \in Nodes : blobs'[n][f] = blobs[n][f]]_vars

\* C15 witness: failNode has just made the last active listed node of a
\* record inactive while an unlisted node is active; the record is there.
C15_Witness ==
    /\ result.op = "fail"
    /\ result.outcome = "ok"
    /\ result.wasActive
    /\ FileA \in DOMAIN metadata
    /\ Listed(metadata[FileA], result.node)
    /\ ActiveCount(active, metadata[FileA]) = 0
    /\ ActiveTotal(active) > 0

\* Every id of every record is a node of the pool and occurs once.
WellFormed(md) ==
    \A f \in DOMAIN md :
        /\ \A i \in 1..Len(md[f]) : md[f][i] \in Nodes
        /\ \A i, j \in 1..Len(md[f]) : i # j => md[f][i] # md[f][j]

\* The sequence s is the beginning of the sequence t.
IsPrefix(s, t) == Len(s) <= Len(t) /\ SubSeq(t, 1, Len(s)) = s

\* C16: from the empty mapping, every operation leaves a mapping in which
\* each record has no duplicate id and only ids in 1..N, and failNode and
\* recoverNode (the health check and its repairs) keep the ids a record
\* has, in their order, at its beginning.
C16_RecordsWellFormed ==
    [][/\ WellFormed(metadata')
       /\ (result'.op \in {"fail", "recover"})
            => \A f \in DOMAIN metadata :
                 /\ f \in DOMAIN metadata'
                 /\ IsPrefix(metadata[f], metadata'[f])]_vars

\* C16 witness: a repair has just run on the record 2,3,4 (one listed node
\* active, the unlisted node 1 active) after a re-upload had replaced the
\* record 1,2,3.
C16_Witness ==
    /\ result.op = "fail"
    /\ result.outcome = "ok"
    /\ result.wasActive
    /\ FileA \in DOMAIN metadata
    /\ metadata[FileA] = <<2, 3, 4>>
    /\ ActiveCount(active, metadata[FileA]) = 1
    /\ active[1]
    /\ blobs[1][FileA] # NoBlob

\* C17: from the empty mapping, every operation leaves a mapping in which
\* each record has exactly REPLICATION ids, and failNode and recoverNode
\* leave the mapping as it was: repair never appends an unlisted node.
C17_RecordsKeepLength ==
    [][/\ \A f \in DOMAIN metadata' : Len(metadata'[f]) = REPLICATION
       /\ (result'.op \in {"fail", "recover"}) => metadata' = metadata]_vars

\* C17 witness: failNode has just left one active listed node, a repair has
\* run with an unlisted node active, and the record still has its
\* REPLICATION ids, the unlisted node holding no blob of the file.
C17_Witness ==
    /\ result.op = "fail"
    /\ result.outcome = "ok"
    /\ result.wasActive
    /\ FileA \in DOMAIN metadata
    /\ Listed(metadata[FileA], result.node)
    /\ ActiveCount(active, metadata[FileA]) = 1
    /\ Len(metadata[FileA]) = REPLICATION
    /\ \E n \in Nodes : /\ active[n]
                        /\ ~Listed(metadata[FileA], n)
                        /\ blobs[n][FileA] = NoBlob

\* C18: every node listed in a file's record holds the content of the last
\* successful upload of that file, so all listed replicas agree. The code
\* breaks it: an upload that fails for lack of active nodes has already
\* overwritten the blob on the active listed nodes (see C2).
C18_ReplicasAgree ==
    \A f \in DOMAIN metadata :
        \A i \in 1..Len(metadata[f]) :
            blobs[metadata[f][i]][f] = uploaded[f]

\* C19: without storage errors, every node listed in a file's record holds
\* a blob of that file whether the node is active or not, and a download of
\* a file that has a record with at least one active listed node succeeds
\* and returns the blob of the first active listed node.
C19_ListedImpliesStored ==
    /\ \A f \in DOMAIN metadata :
          \A i \in 1..Len(metadata[f]) : blobs[metadata[f][i]][f] # NoBlob
    /\ (/\ result.op = "download"
        /\ result.file \in DOMAIN metadata
        /\ ActiveCount(active, metadata[result.file]) >= 1)
         => /\ result.outcome = "ok"
            /\ result.content =
                 blobs[FirstActive(active, metadata[result.file])][result.file]

\* C19 witness: a download has just succeeded for a file whose first listed
\* node is inactive and still holds the blob.
C19_Witness ==
    /\ result.op = "download"
    /\ result.outcome = "ok"
    /\ result.file \in DOMAIN metadata
    /\ ~active[metadata[result.file][1]]
    /\ blobs[metadata[result.file][1]][result.file] # NoBlob
    /\ ActiveCount(active, metadata[result.file]) >= 1

====
